---- MODULE Spec2Model ----
(***************************************************************************)
(* Model of the HHVM debugger wrapper (src/src/debugger.ts): a Node        *)
(* process that bridges a debug client speaking Content-Length framed      *)
(* JSON on stdin/stdout to a debug target speaking NUL-terminated JSON     *)
(* over a socket (attach) or a spawned child (launch).                     *)
(*                                                                         *)
(* Text is modelled as a sequence of code units (integers).  Single        *)
(* characters keep their character code.  A run of ASCII text whose inner  *)
(* structure no code path inspects (the members of a JSON object, the      *)
(* words "Content-Length: ") is collapsed into one unit; a split inside    *)
(* such a run is, for every test the code makes (indexOf of the            *)
(* separator, length comparison), the same as a split at its boundary.     *)
(* The one two-byte character of the alphabet (e-acute) keeps its UTF-8    *)
(* encoding, so byte lengths and code-unit lengths differ where they do    *)
(* in the program.                                                         *)
(***************************************************************************)
EXTENDS Integers, Sequences, FiniteSets

\* ---------------------------------------------------------------- bounds
\* Number of frames the client sends in one run (client seq runs 1..MaxRequests).
MaxRequests == 4
\* Number of targets (sockets and children) created in one run.
MaxTargets == 2
\* The same two, for the runs that follow the outbound traffic.
MaxOutRequests == 2
MaxOutTargets == 1
\* Number of frames in a client byte stream that is read in arbitrary chunks.
MaxFrames == 2
\* Number of data chunks the targets deliver in one run.
MaxTargetChunks == 2
\* Number of stdout/stderr blocks launched children print in one run.
MaxChildOutput == 1

\* ------------------------------------------------------ program constants
DEFAULT_HHVM_DEBUGGER_PORT == 8999
\* retries >= 5 ends the retry chain (the error handler of attachTarget).
MaxRetries == 5

\* ------------------------------------------------------------ code units
NUL == 0
LF == 10
CR == 13
LBRACE == 123
RBRACE == 125
LetterX == 120
\* The text "Content-Length: " as one unit.
HDR == 67
\* e-acute: one UTF-16 code unit, two UTF-8 bytes.
EAcute == 233
EAcuteLead == 195
EAcuteTrail == 169
\* U+FFFD, what Buffer.toString() yields for an incomplete sequence.
Replacement == 65533
\* First code of the units standing for the members of a client request.
ReqAtomBase == 1000
\* First code of the units standing for the members of a target message.
TargetAtomBase == 2000
\* First code of the units standing for the members of a message the
\* bridge builds itself (a response, an output event).
OutAtomBase == 3000

TWO_CRLF == <<CR, LF, CR, LF>>

IsDigit(u) == u >= 48 /\ u <= 57

\* NaN, the result of parseInt on text with no leading digit.
NaN == -1

\* String.prototype.indexOf(pat): 0-based index of the first occurrence, -1 if none.
IndexOf(s, pat) ==
  LET hits == {i \in 1..(Len(s) - Len(pat) + 1) :
                 \A k \in 1..Len(pat) : s[i + k - 1] = pat[k]}
  IN IF hits = {} THEN -1
     ELSE (CHOOSE i \in hits : \A j \in hits : i <= j) - 1

\* String.prototype.substr(from): the text from 0-based index from on.
SubstrFrom(s, from) == SubSeq(s, from + 1, Len(s))

\* String.prototype.substr(0, n): the first n units (fewer if the text is shorter).
SubstrTo(s, n) == SubSeq(s, 1, IF n < Len(s) THEN n ELSE Len(s))

\* parseInt(text, 10) on text over digits and letters: the leading digits' value.
RECURSIVE ParseIntFrom(_, _, _)
ParseIntFrom(s, i, acc) ==
  IF i > Len(s) \/ ~IsDigit(s[i]) THEN acc
  ELSE ParseIntFrom(s, i + 1, acc * 10 + (s[i] - 48))

ParseInt(s) == IF Len(s) = 0 \/ ~IsDigit(s[1]) THEN NaN ELSE ParseIntFrom(s, 1, 0)

\* Buffer.toString() (UTF-8 decoding) of one chunk: a complete two-byte
\* sequence is one code unit, a lead byte without its trail byte or a trail
\* byte on its own is U+FFFD.
RECURSIVE ChunkToString(_)
ChunkToString(bytes) ==
  IF bytes = <<>> THEN <<>>
  ELSE IF bytes[1] = EAcuteLead
       THEN IF Len(bytes) >= 2 /\ bytes[2] = EAcuteTrail
            THEN <<EAcute>> \o ChunkToString(SubSeq(bytes, 3, Len(bytes)))
            ELSE <<Replacement>> \o ChunkToString(Tail(bytes))
       ELSE IF bytes[1] = EAcuteTrail
            THEN <<Replacement>> \o ChunkToString(Tail(bytes))
            ELSE <<bytes[1]>> \o ChunkToString(Tail(bytes))

\* The UTF-8 encoding of text.
RECURSIVE Utf8(_)
Utf8(text) ==
  IF text = <<>> THEN <<>>
  ELSE (IF text[1] = EAcute THEN <<EAcuteLead, EAcuteTrail>>
        ELSE IF text[1] = Replacement THEN <<239, 191, 189>>
        ELSE <<text[1]>>) \o Utf8(Tail(text))

\* Buffer.byteLength(text, 'utf8').
ByteLength(text) == Len(Utf8(text))

\* ------------------------------------------------------------- requests
\* A command is a sequence of words, so that a prefix is something the
\* model can test and replace: <<"nuclide_", "pause">> is "nuclide_pause".
\* The command-and-arguments texts the client sends; unit ReqAtomBase + i
\* stands for the i-th of them.
Variants ==
  << [command |-> <<"disconnect">>, arguments |-> [noDebug |-> FALSE, port |-> <<>>]],
     [command |-> <<"launch">>, arguments |-> [noDebug |-> FALSE, port |-> <<>>]],
     [command |-> <<"launch">>, arguments |-> [noDebug |-> TRUE, port |-> <<>>]],
     [command |-> <<"attach">>, arguments |-> [noDebug |-> FALSE, port |-> <<>>]],
     [command |-> <<"attach">>, arguments |-> [noDebug |-> FALSE, port |-> <<97, 98>>]],
     [command |-> <<"next">>, arguments |-> [noDebug |-> FALSE, port |-> <<>>]],
     [command |-> <<"nuclide_", "pause">>, arguments |-> [noDebug |-> FALSE, port |-> <<>>]] >>

IsReqAtom(u) == u > ReqAtomBase /\ u <= ReqAtomBase + Len(Variants)

\* A request as the client builds it.
Request(seq, v, extra) ==
  [seq |-> seq, command |-> Variants[v].command,
   arguments |-> Variants[v].arguments, variant |-> v, extra |-> extra]

\* The JSON text of a request: '{', the seq digit, the members, the
\* characters of a string argument, '}'.
RequestText(req) ==
  <<LBRACE, 48 + req.seq, ReqAtomBase + req.variant>> \o req.extra \o <<RBRACE>>

\* JSON.parse of a client payload: ok is FALSE where JSON.parse throws.
JsonParseRequest(text) ==
  LET n == Len(text)
      ok == /\ n >= 4
            /\ text[1] = LBRACE
            /\ IsDigit(text[2])
            /\ IsReqAtom(text[3])
            /\ text[n] = RBRACE
            /\ \A i \in 4..(n - 1) : text[i] \in {EAcute, Replacement}
  IN IF ok
     THEN [ok |-> TRUE,
           value |-> Request(text[2] - 48, text[3] - ReqAtomBase, SubSeq(text, 4, n - 1))]
     ELSE [ok |-> FALSE, value |-> Request(0, 1, <<>>)]

\* The text writeOutputWithHeader writes first: "Content-Length: ", the
\* decimal length (one digit at these sizes), two CRLF.
HeaderText(length) == <<HDR, 48 + length>> \o TWO_CRLF

\* The bytes writeOutputWithHeader puts on a stream for the text output:
\* the header with the byte length of output, then output, both as UTF-8.
OutputFrame(output) == Utf8(HeaderText(ByteLength(output))) \o Utf8(output)

\* The frame of a request on the client's side: header with the payload's
\* byte length, two CRLF, payload bytes.
FrameBytes(req) == OutputFrame(RequestText(req))

\* JSON.stringify of a message the bridge writes to the client: '{', the
\* seq, the members, the characters of a string member, '}'.  Characters
\* outside ASCII are written as they are.
Stringify(output) ==
  IF output.type = "target"
  THEN <<LBRACE, 48 + output.seq, TargetAtomBase + output.id, RBRACE>>
  ELSE IF output.type = "event"
  THEN <<LBRACE, 48 + output.seq, OutAtomBase + 2>> \o output.output \o <<RBRACE>>
  ELSE <<LBRACE, 48 + output.seq, OutAtomBase + 1, RBRACE>>

\* JSON.parse of a target message: an object is '{', its members, '}'.
JsonParseTarget(text) ==
  IF Len(text) = 3 /\ text[1] = LBRACE /\ text[2] > TargetAtomBase /\ text[3] = RBRACE
  THEN [ok |-> TRUE, value |-> [id |-> text[2] - TargetAtomBase]]
  ELSE [ok |-> FALSE, value |-> [id |-> 0]]

\* ---------------------------------------------------------------- state
VARIABLES
  sequenceNumber,        \* this.sequenceNumber
  currentOutputData,     \* this.currentOutputData: target text not yet split
  currentInputData,      \* this.currentInputData: client text not yet deframed
  currentContentLength,  \* this.currentContentLength (0: no header parsed)
  bufferedRequests,      \* this.bufferedRequests
  debugging,             \* this.debugging
  debuggerWriteCallback, \* this.debuggerWriteCallback: 0 (undefined) or the target it writes to
  targets,               \* the sockets and child processes created so far
  timers,                \* pending setTimeout callbacks of the retry policy
  exitCode,              \* "none" while the process runs, else its exit status
  effects,               \* everything the process did, in order (writes, exits)
  clientSeq,             \* environment: frames the client has sent
  stdinStream,           \* environment: client bytes not yet read
  stdinRead,             \* environment: client bytes already read
  targetRead,            \* environment: target bytes already read
  nTargetChunks,         \* environment: data chunks targets have delivered
  nChildOutput           \* environment: blocks children have printed

\* The bridge's own state, as one record the handlers transform.
bridgeVars ==
  <<sequenceNumber, currentOutputData, currentInputData, currentContentLength,
    bufferedRequests, debugging, debuggerWriteCallback, targets, timers,
    exitCode, effects>>

envVars == <<clientSeq, stdinStream, stdinRead, targetRead, nTargetChunks, nChildOutput>>

vars == <<bridgeVars, envVars>>

Cur ==
  [sequenceNumber |-> sequenceNumber,
   currentOutputData |-> currentOutputData,
   currentInputData |-> currentInputData,
   currentContentLength |-> currentContentLength,
   bufferedRequests |-> bufferedRequests,
   debugging |-> debugging,
   debuggerWriteCallback |-> debuggerWriteCallback,
   targets |-> targets,
   timers |-> timers,
   exitCode |-> exitCode,
   effects |-> effects]

\* The state a handler leaves becomes the next state.
Commit(s) ==
  /\ sequenceNumber' = s.sequenceNumber
  /\ currentOutputData' = s.currentOutputData
  /\ currentInputData' = s.currentInputData
  /\ currentContentLength' = s.currentContentLength
  /\ bufferedRequests' = s.bufferedRequests
  /\ debugging' = s.debugging
  /\ debuggerWriteCallback' = s.debuggerWriteCallback
  /\ targets' = s.targets
  /\ timers' = s.timers
  /\ exitCode' = s.exitCode
  /\ effects' = s.effects

\* The constructor.
Constructed ==
  [sequenceNumber |-> 0,
   currentOutputData |-> <<>>,
   currentInputData |-> <<>>,
   currentContentLength |-> 0,
   bufferedRequests |-> <<>>,
   debugging |-> FALSE,
   debuggerWriteCallback |-> 0,
   targets |-> <<>>,
   timers |-> {},
   exitCode |-> "none",
   effects |-> <<>>]

\* ------------------------------------------------------------- effects
Effect(ch, to, stream, via, msg) ==
  [ch |-> ch, to |-> to, stream |-> stream, via |-> via, msg |-> msg]

Emit(s, e) == [s EXCEPT !.effects = Append(@, e)]

Running(s) == s.exitCode = "none"

\* process.exit(code): nothing of the process runs afterwards.
ProcessExit(s, code) ==
  [Emit(s, Effect("exit", 0, "", "", [code |-> code])) EXCEPT !.exitCode = code]

\* process.stderr.write(text).
StderrWrite(s, text) == Emit(s, Effect("stderr", 0, "stderr", "", [text |-> text]))

\* fs.appendFileSync('/tmp/ext.log', text) by a handler of socket t.  The
\* log is not a stream the client reads; the lines of the close and
\* disconnect handlers are kept, as the record of which handler ran.
LogAppend(s, t, text) == Emit(s, Effect("log", t, "/tmp/ext.log", "", [text |-> text]))

\* An exception no handler catches: Node prints it and exits with status 1.
Throw(s, what) == ProcessExit(StderrWrite(s, what), "1")

\* writeOutputWithHeader with the header holding output.length, the number
\* of code units.
WriteOutputWithHeaderCodeUnits(s, output) ==
  LET length == Len(Stringify(output))
      header == Emit(s, Effect("stdout", 0, "stdout", "header",
                               [text |-> HeaderText(length)]))
  IN Emit(header, Effect("stdout", 0, "stdout", "body", output))

\* writeOutputWithHeader: two writes to stdout, the header with the byte
\* length of the stringified message, then the message.
WriteOutputWithHeader(s, output) ==
  LET length == ByteLength(Stringify(output))
      header == Emit(s, Effect("stdout", 0, "stdout", "header",
                               [text |-> HeaderText(length)]))
  IN Emit(header, Effect("stdout", 0, "stdout", "body", output))

\* writeResponseMessage: the spread of message comes after seq and type.
WriteResponseMessage(s, message) ==
  LET n == s.sequenceNumber + 1
  IN WriteOutputWithHeader([s EXCEPT !.sequenceNumber = n],
       [seq |-> n, type |-> "response", request_seq |-> message.request_seq,
        success |-> message.success, command |-> message.command])

\* writeOutputEvent stamping the counter without advancing it.
WriteOutputEventStale(s, eventType, message) ==
  WriteOutputWithHeader(s,
    [seq |-> s.sequenceNumber, type |-> "event", event |-> "output",
     category |-> eventType, output |-> message])

\* writeOutputEvent.
WriteOutputEvent(s, eventType, message) ==
  LET n == s.sequenceNumber + 1
  IN WriteOutputWithHeader([s EXCEPT !.sequenceNumber = n],
       [seq |-> n, type |-> "event", event |-> "output",
        category |-> eventType, output |-> message])

\* The child's stream the bridge registers processDebuggerMessage on.
ChildProtocolStream == "stdio[3]"

\* The write callback bound to target t: the message and a NUL, to the
\* socket (attach) or to the child's standard input (launch).
Callback(s, t, via, requestMsg) ==
  Emit(s, Effect("target", t,
                 IF s.targets[t].kind = "socket" THEN "socket" ELSE "stdin",
                 via, requestMsg))

\* forwardBufferedMessages: every buffered request, stringified as it is,
\* through the bound callback; the array is left as it was.
RECURSIVE ForwardFrom(_, _)
ForwardFrom(s, i) ==
  IF i > Len(s.bufferedRequests) THEN s
  ELSE ForwardFrom(Callback(s, s.debuggerWriteCallback, "buffered", s.bufferedRequests[i]),
                   i + 1)

\* forwardBufferedMessages walking the array from its end.
RECURSIVE ForwardDownFrom(_, _)
ForwardDownFrom(s, i) ==
  IF i < 1 THEN s
  ELSE ForwardDownFrom(Callback(s, s.debuggerWriteCallback, "buffered", s.bufferedRequests[i]),
                       i - 1)

ForwardBufferedMessagesReversed(s) ==
  IF s.debuggerWriteCallback # 0 THEN ForwardDownFrom(s, Len(s.bufferedRequests)) ELSE s

ForwardBufferedMessages(s) ==
  IF s.debuggerWriteCallback # 0 THEN ForwardFrom(s, 1) ELSE s

\* translateNuclideRequest: startsWith('nuclide_'), then replace() of the
\* first occurrence, which is the prefix.
TranslateNuclideRequest(requestMsg) ==
  IF requestMsg.command # <<>> /\ requestMsg.command[1] = "nuclide_"
  THEN [requestMsg EXCEPT !.command = [@ EXCEPT ![1] = "fb_"]]
  ELSE requestMsg

\* ----------------------------------------------------- target lifecycle
\* this.debugging = true, for the target just bound.
SetDebugging(s, t) ==
  [Emit(s, Effect("established", t, "", "", [debugging |-> TRUE]))
     EXCEPT !.debugging = TRUE]

\* launchTarget: spawn the child, register its handlers, then write the
\* launch request, bind the callback, forward the buffer, set the flag.
\* With noDebug the child has no stdio[3] and registering its data handler
\* throws a TypeError.
LaunchTarget(s, launchMessage) ==
  LET t == Len(s.targets) + 1
      spawned == [s EXCEPT !.targets = Append(@,
                    [kind |-> "child", state |-> "running", msg |-> launchMessage,
                     retries |-> 0, port |-> 0,
                     noDebug |-> launchMessage.arguments.noDebug])]
  IN IF launchMessage.arguments.noDebug
     THEN Throw(spawned, "TypeError")
     ELSE LET written == Callback(spawned, t, "handshake", launchMessage)
              bound == [written EXCEPT !.debuggerWriteCallback = t]
          IN SetDebugging(ForwardBufferedMessages(bound), t)

\* attachTarget without the test of the parsed port.
AttachTargetAnyPort(s, attachMessage, retries) ==
  LET port == attachMessage.arguments.port
      attachPort == IF port # <<>> THEN ParseInt(port) ELSE DEFAULT_HHVM_DEBUGGER_PORT
  IN [s EXCEPT !.targets = Append(@,
        [kind |-> "socket", state |-> "connecting", msg |-> attachMessage,
         retries |-> retries, port |-> attachPort, noDebug |-> FALSE])]

\* attachTarget up to socket.connect(): parse the port, create the socket
\* with its handlers, start connecting.
AttachTarget(s, attachMessage, retries) ==
  LET port == attachMessage.arguments.port
      attachPort == IF port # <<>> THEN ParseInt(port) ELSE DEFAULT_HHVM_DEBUGGER_PORT
  IN IF attachPort = NaN
     THEN Throw(s, "Invalid HHVM debug port specified.")
     ELSE [s EXCEPT !.targets = Append(@,
             [kind |-> "socket", state |-> "connecting", msg |-> attachMessage,
              retries |-> retries, port |-> attachPort, noDebug |-> FALSE])]

\* The 'connect' handler forwarding the buffer before the attach request.
OnSocketConnectForwardFirst(s, t) ==
  LET attachMessage == s.targets[t].msg
      bound == [s EXCEPT !.targets[t].state = "connected", !.debuggerWriteCallback = t]
      written == Callback(ForwardBufferedMessages(bound), t, "handshake", attachMessage)
  IN WriteResponseMessage(SetDebugging(written, t),
       [request_seq |-> attachMessage.seq, success |-> TRUE,
        command |-> attachMessage.command])

\* The 'connect' handler of socket t.
OnSocketConnect(s, t) ==
  LET attachMessage == s.targets[t].msg
      written == Callback([s EXCEPT !.targets[t].state = "connected"],
                          t, "handshake", attachMessage)
      bound == [written EXCEPT !.debuggerWriteCallback = t]
      flagged == SetDebugging(ForwardBufferedMessages(bound), t)
  IN WriteResponseMessage(flagged,
       [request_seq |-> attachMessage.seq, success |-> TRUE,
        command |-> attachMessage.command])

\* The 'close' handler.
OnSocketClose(s, t) == ProcessExit(LogAppend(s, t, "Socket event: close"), "0")

\* The 'disconnect' handler.
OnSocketDisconnect(s, t) ==
  ProcessExit(StderrWrite(LogAppend(s, t, "Socket event: disconnect"),
                          "The connection to the debug target has been closed."), "0")

\* The 'error' handler of socket t: after MaxRetries retries report and
\* exit with the error's code, else schedule attachTarget(msg, retries + 1).
OnSocketError(s, t, code) ==
  LET failed == [s EXCEPT !.targets[t].state = "errored"]
  IN IF s.targets[t].retries >= MaxRetries
     THEN ProcessExit(StderrWrite(failed, "Error communicating with debugger target"), code)
     ELSE [failed EXCEPT !.timers = @ \cup
             {[msg |-> s.targets[t].msg, retries |-> s.targets[t].retries + 1, from |-> t]}]

\* The setTimeout callback of the retry policy.
OnRetryTimer(s, tm) ==
  AttachTarget([s EXCEPT !.timers = @ \ {tm}], tm.msg, tm.retries)

\* ----------------------------------------------------- client requests
\* handleWrapperRequest answering disconnect without leaving the process.
HandleWrapperRequestNoExit(s, requestMsg) ==
  IF requestMsg.command = <<"disconnect">>
  THEN [s |-> WriteResponseMessage(s,
                [request_seq |-> requestMsg.seq, success |-> TRUE,
                 command |-> requestMsg.command]),
        handled |-> TRUE]
  ELSE IF requestMsg.command = <<"launch">>
  THEN [s |-> LaunchTarget(s, requestMsg), handled |-> TRUE]
  ELSE IF requestMsg.command = <<"attach">>
  THEN [s |-> AttachTarget(s, requestMsg, 0), handled |-> TRUE]
  ELSE IF ~s.debugging
  THEN [s |-> [s EXCEPT !.bufferedRequests = Append(@, requestMsg)], handled |-> TRUE]
  ELSE [s |-> s, handled |-> FALSE]

\* handleWrapperRequest: the state it leaves and its return value.
HandleWrapperRequest(s, requestMsg) ==
  IF requestMsg.command = <<"disconnect">>
  THEN [s |-> ProcessExit(WriteResponseMessage(s,
                [request_seq |-> requestMsg.seq, success |-> TRUE,
                 command |-> requestMsg.command]), "0"),
        handled |-> TRUE]
  ELSE IF requestMsg.command = <<"launch">>
  THEN [s |-> LaunchTarget(s, requestMsg), handled |-> TRUE]
  ELSE IF requestMsg.command = <<"attach">>
  THEN [s |-> AttachTarget(s, requestMsg, 0), handled |-> TRUE]
  ELSE IF ~s.debugging
  THEN [s |-> [s EXCEPT !.bufferedRequests = Append(@, requestMsg)], handled |-> TRUE]
  ELSE [s |-> s, handled |-> FALSE]

\* The body of processClientMessage's loop for one parsed request: hand it
\* to handleWrapperRequest and, if that declines it, translate and forward.
DispatchRequest(s, requestMsg) ==
  LET h == HandleWrapperRequest(Emit(s, Effect("dispatch", 0, "", "", requestMsg)),
                                requestMsg)
  IN IF ~Running(h.s) \/ h.handled \/ h.s.debuggerWriteCallback = 0
     THEN h.s
     ELSE Callback(h.s, h.s.debuggerWriteCallback, "direct",
                   TranslateNuclideRequest(requestMsg))

\* The regular expression Content-Length: (\d+) on a header: the digits
\* captured by the first match, <<>> when nothing matches.
MatchContentLength(header) ==
  LET hits == {i \in 1..(Len(header) - 1) : header[i] = HDR /\ IsDigit(header[i + 1])}
  IN IF hits = {} THEN <<>>
     ELSE LET i == CHOOSE k \in hits : \A j \in hits : k <= j
              last == CHOOSE e \in (i + 1)..Len(header) :
                        /\ \A k \in (i + 1)..e : IsDigit(header[k])
                        /\ (e = Len(header) \/ ~IsDigit(header[e + 1]))
          IN SubSeq(header, i + 1, last)

\* readContentHeader.
ReadContentHeader(s) ==
  LET idx == IndexOf(s.currentInputData, TWO_CRLF)
  IN IF idx <= 0 THEN s
     ELSE LET header == SubstrTo(s.currentInputData, idx)
              match == MatchContentLength(header)
          IN IF match = <<>>
             THEN Throw(s, "Unable to parse message from debugger client")
             ELSE [s EXCEPT !.currentContentLength = ParseInt(match),
                            !.currentInputData = SubstrFrom(@, idx + Len(TWO_CRLF)),
                            !.sequenceNumber = @ + 1]

\* The while (true) loop of processClientMessage.
RECURSIVE ClientLoop(_)
ClientLoop(s) ==
  LET h == IF s.currentContentLength = 0 THEN ReadContentHeader(s) ELSE s
      length == h.currentContentLength
  IN IF ~Running(h) THEN h
     ELSE IF length = 0 \/ Len(h.currentInputData) < length THEN h
     ELSE LET parsed == JsonParseRequest(SubstrTo(h.currentInputData, length))
          IN IF ~parsed.ok THEN Throw(h, "SyntaxError")
             ELSE LET d == DispatchRequest(h, parsed.value)
                  IN IF ~Running(d) THEN d
                     ELSE ClientLoop([d EXCEPT !.currentContentLength = 0,
                                               !.currentInputData = SubstrFrom(@, length)])

\* processClientMessage(chunk).
ProcessClientMessage(s, chunk) ==
  ClientLoop([s EXCEPT !.currentInputData = @ \o ChunkToString(chunk)])

\* ------------------------------------------------------ target messages
\* The while (idx > 0) loop of processDebuggerMessage.
RECURSIVE DebuggerLoop(_)
DebuggerLoop(s) ==
  LET idx == IndexOf(s.currentOutputData, <<NUL>>)
  IN IF ~(idx > 0) THEN s
     ELSE LET message == SubstrTo(s.currentOutputData, idx)
              parsed == JsonParseTarget(message)
              n == s.sequenceNumber + 1
              done == IF parsed.ok
                      THEN WriteOutputWithHeader([s EXCEPT !.sequenceNumber = n],
                             [seq |-> n, type |-> "target", id |-> parsed.value.id])
                      ELSE StderrWrite(s, "Error parsing message from target")
          IN DebuggerLoop([done EXCEPT !.currentOutputData = SubstrFrom(@, idx + 1)])

\* processDebuggerMessage(chunk).
ProcessDebuggerMessage(s, chunk) ==
  DebuggerLoop([s EXCEPT !.currentOutputData = @ \o ChunkToString(chunk)])

\* ------------------------------------------------------------- actions
\* What targets send in one data event: a whole message, garbage followed
\* by a message, the two halves of a message, an empty message.
TargetMessage == <<LBRACE, TargetAtomBase + 1, RBRACE, NUL>>

TargetChunks ==
  { TargetMessage,
    <<LetterX, NUL>> \o TargetMessage,
    <<LBRACE, TargetAtomBase + 1>>,
    <<RBRACE, NUL>>,
    <<NUL>> }

\* What a child prints in one block: a letter on its standard output, a
\* two-byte character on its standard error.
ChildBlocks ==
  { [category |-> "stdout", chunk |-> <<LetterX>>],
    [category |-> "stderr", chunk |-> <<EAcuteLead, EAcuteTrail>>] }

\* Exit statuses of a launched child.
ChildExitCodes == {"0", "3"}

Init ==
  /\ sequenceNumber = Constructed.sequenceNumber
  /\ currentOutputData = Constructed.currentOutputData
  /\ currentInputData = Constructed.currentInputData
  /\ currentContentLength = Constructed.currentContentLength
  /\ bufferedRequests = Constructed.bufferedRequests
  /\ debugging = Constructed.debugging
  /\ debuggerWriteCallback = Constructed.debuggerWriteCallback
  /\ targets = Constructed.targets
  /\ timers = Constructed.timers
  /\ exitCode = Constructed.exitCode
  /\ effects = Constructed.effects
  /\ clientSeq = 0
  /\ stdinStream = <<>>
  /\ stdinRead = <<>>
  /\ targetRead = <<>>
  /\ nTargetChunks = 0
  /\ nChildOutput = 0

\* stdin 'data': the client sends its next request, one frame in one chunk.
ClientData(v, maxRequests, maxTargets) ==
  /\ exitCode = "none"
  /\ stdinStream = <<>>
  /\ clientSeq < maxRequests
  /\ Variants[v].command \in {<<"launch">>, <<"attach">>} => Len(targets) < maxTargets
  /\ clientSeq' = clientSeq + 1
  /\ Commit(ProcessClientMessage(Cur, FrameBytes(Request(clientSeq + 1, v, <<>>))))
  /\ UNCHANGED <<stdinStream, stdinRead, targetRead, nTargetChunks, nChildOutput>>

\* socket 'connect'.
SocketConnect(t) ==
  /\ exitCode = "none"
  /\ targets[t].kind = "socket" /\ targets[t].state = "connecting"
  /\ Commit(OnSocketConnect(Cur, t))
  /\ UNCHANGED envVars

\* socket 'error': a failed connection attempt, or a failure of an
\* established connection.  A socket reports one error.
SocketError(t) ==
  /\ exitCode = "none"
  /\ targets[t].kind = "socket" /\ targets[t].state \in {"connecting", "connected"}
  /\ Commit(OnSocketError(Cur, t,
       IF targets[t].state = "connecting" THEN "ECONNREFUSED" ELSE "ECONNRESET"))
  /\ UNCHANGED envVars

\* socket 'close': an established connection ends, or the close that
\* follows an error.
SocketClose(t) ==
  /\ exitCode = "none"
  /\ targets[t].kind = "socket" /\ targets[t].state \in {"connected", "errored"}
  /\ Commit(OnSocketClose(Cur, t))
  /\ UNCHANGED envVars

\* socket 'disconnect'.
SocketDisconnect(t) ==
  /\ exitCode = "none"
  /\ targets[t].kind = "socket" /\ targets[t].state = "connected"
  /\ Commit(OnSocketDisconnect(Cur, t))
  /\ UNCHANGED envVars

\* The retry timer fires.
RetryTimer(tm, limit) ==
  /\ exitCode = "none"
  /\ tm \in timers
  /\ Len(targets) < limit
  /\ Commit(OnRetryTimer(Cur, tm))
  /\ UNCHANGED envVars

\* socket 'data'.
SocketData(t, chunk) ==
  /\ exitCode = "none"
  /\ targets[t].kind = "socket" /\ targets[t].state = "connected"
  /\ nTargetChunks < MaxTargetChunks
  /\ nTargetChunks' = nTargetChunks + 1
  /\ targetRead' = targetRead \o chunk
  /\ Commit(ProcessDebuggerMessage(Cur, chunk))
  /\ UNCHANGED <<clientSeq, stdinStream, stdinRead, nChildOutput>>

\* 'data' on the child's stdio[3].
ChildData(t, chunk) ==
  /\ exitCode = "none"
  /\ targets[t].kind = "child"
  /\ nTargetChunks < MaxTargetChunks
  /\ nTargetChunks' = nTargetChunks + 1
  /\ targetRead' = targetRead \o chunk
  /\ Commit(ProcessDebuggerMessage(Cur, chunk))
  /\ UNCHANGED <<clientSeq, stdinStream, stdinRead, nChildOutput>>

\* 'data' on the child's stdout or stderr.
ChildOutput(t, block) ==
  /\ exitCode = "none"
  /\ targets[t].kind = "child"
  /\ nChildOutput < MaxChildOutput
  /\ nChildOutput' = nChildOutput + 1
  /\ Commit(WriteOutputEvent(Cur, block.category, ChunkToString(block.chunk)))
  /\ UNCHANGED <<clientSeq, stdinStream, stdinRead, targetRead, nTargetChunks>>

\* child 'exit'.
ChildExit(t, code) ==
  /\ exitCode = "none"
  /\ targets[t].kind = "child"
  /\ Commit(ProcessExit(Cur, code))
  /\ UNCHANGED envVars

\* The session: client requests and the life of the targets.
Next ==
  \/ \E v \in 1..Len(Variants) : ClientData(v, MaxRequests, MaxTargets)
  \/ \E t \in 1..Len(targets) : SocketConnect(t)
  \/ \E t \in 1..Len(targets) : SocketError(t)
  \/ \E t \in 1..Len(targets) : SocketClose(t)
  \/ \E t \in 1..Len(targets) : SocketDisconnect(t)
  \/ \E tm \in timers : RetryTimer(tm, MaxTargets)
  \/ \E t \in 1..Len(targets), code \in ChildExitCodes : ChildExit(t, code)

Spec == Init /\ [][Next]_vars

\* The outbound traffic: client requests, target data, child output.
NextOutput ==
  \/ \E v \in 1..Len(Variants) : ClientData(v, MaxOutRequests, MaxOutTargets)
  \/ \E t \in 1..Len(targets) : SocketConnect(t)
  \/ \E t \in 1..Len(targets), chunk \in TargetChunks : SocketData(t, chunk)
  \/ \E t \in 1..Len(targets), chunk \in TargetChunks : ChildData(t, chunk)
  \/ \E t \in 1..Len(targets), block \in ChildBlocks : ChildOutput(t, block)

SpecOutput == Init /\ [][NextOutput]_vars

\* One attach request and its whole retry chain.
AttachVariant ==
  CHOOSE v \in 1..Len(Variants) :
    Variants[v].command = <<"attach">> /\ Variants[v].arguments.port = <<>>

NextRetry ==
  \/ clientSeq = 0 /\ ClientData(AttachVariant, 1, 1)
  \/ \E t \in 1..Len(targets) : SocketConnect(t)
  \/ \E t \in 1..Len(targets) : SocketError(t)
  \/ \E t \in 1..Len(targets) : SocketClose(t)
  \/ \E tm \in timers : RetryTimer(tm, MaxRetries + 2)

SpecRetry == Init /\ [][NextRetry]_vars

\* The client byte stream, read in chunks of any size.
\* The requests a stream is framed from: launch, a plain command, a
\* legacy-prefixed command, each with or without a two-byte character in
\* a string argument.
FramingVariants == {2, 6, 7}

FramingExtras == {<<>>, <<EAcute>>}

RECURSIVE StreamOf(_, _)
StreamOf(choice, i) ==
  IF i > Len(choice) THEN <<>>
  ELSE FrameBytes(Request(i, choice[i][1], choice[i][2])) \o StreamOf(choice, i + 1)

FramingStreams ==
  { StreamOf(choice, 1) :
      choice \in UNION { [1..n -> FramingVariants \X FramingExtras] : n \in 1..MaxFrames } }

InitFraming ==
  /\ sequenceNumber = Constructed.sequenceNumber
  /\ currentOutputData = Constructed.currentOutputData
  /\ currentInputData = Constructed.currentInputData
  /\ currentContentLength = Constructed.currentContentLength
  /\ bufferedRequests = Constructed.bufferedRequests
  /\ debugging = Constructed.debugging
  /\ debuggerWriteCallback = Constructed.debuggerWriteCallback
  /\ targets = Constructed.targets
  /\ timers = Constructed.timers
  /\ exitCode = Constructed.exitCode
  /\ effects = Constructed.effects
  /\ clientSeq = 0
  /\ stdinStream \in FramingStreams
  /\ stdinRead = <<>>
  /\ targetRead = <<>>
  /\ nTargetChunks = 0
  /\ nChildOutput = 0

\* stdin 'data': the next n bytes of the stream arrive as one chunk.
ClientRead(n) ==
  /\ exitCode = "none"
  /\ n <= Len(stdinStream)
  /\ Commit(ProcessClientMessage(Cur, SubSeq(stdinStream, 1, n)))
  /\ stdinRead' = stdinRead \o SubSeq(stdinStream, 1, n)
  /\ stdinStream' = SubSeq(stdinStream, n + 1, Len(stdinStream))
  /\ UNCHANGED <<clientSeq, targetRead, nTargetChunks, nChildOutput>>

NextFraming == \E n \in 1..Len(stdinStream) : ClientRead(n)

SpecFraming == InitFraming /\ [][NextFraming]_vars

\* ------------------------------------------------------------ properties
\* Views of the effects.
TargetWrites == SelectSeq(effects, LAMBDA e : e.ch = "target")

WritesTo(t) == SelectSeq(effects, LAMBDA e : e.ch = "target" /\ e.to = t)

BufferedWritesTo(t) ==
  SelectSeq(effects, LAMBDA e : e.ch = "target" /\ e.to = t /\ e.via = "buffered")

\* The messages written to the client (the body writes).
ClientWrites == SelectSeq(effects, LAMBDA e : e.ch = "stdout" /\ e.via = "body")

Dispatches == SelectSeq(effects, LAMBDA e : e.ch = "dispatch")

Diagnostics == SelectSeq(effects, LAMBDA e : e.ch = "stderr")

SeqsOf(es) == [i \in 1..Len(es) |-> es[i].msg.seq]

Established(t) == \E k \in 1..Len(effects) : effects[k].ch = "established" /\ effects[k].to = t

IsLifecycle(command) ==
  command \in {<<"disconnect">>, <<"launch">>, <<"attach">>}

\* Index in the effects of the first connection established, 0 if none.
FirstEstablished ==
  LET ks == {k \in 1..Len(effects) : effects[k].ch = "established"}
  IN IF ks = {} THEN 0 ELSE CHOOSE k \in ks : \A j \in ks : k <= j

\* The non-lifecycle requests received while no connection was established.
ReceivedBefore ==
  LET last == IF FirstEstablished = 0 THEN Len(effects) ELSE FirstEstablished
  IN SelectSeq(SubSeq(effects, 1, last),
               LAMBDA e : e.ch = "dispatch" /\ ~IsLifecycle(e.msg.command))

\* C1: every target that got connected has received the requests that
\* arrived before any connection existed, in the order they arrived, and on
\* every connection, and over all connections together, each of them was
\* written before any request forwarded on arrival.
C1_BufferedFifoBeforeLater ==
  /\ \A t \in 1..Len(targets) :
       Established(t) =>
         /\ SeqsOf(BufferedWritesTo(t)) = SeqsOf(ReceivedBefore)
         /\ \A i, j \in 1..Len(WritesTo(t)) :
              (WritesTo(t)[i].via = "buffered" /\ WritesTo(t)[j].via = "direct") => i < j
  /\ \A j \in 1..Len(TargetWrites) :
       TargetWrites[j].via = "direct" =>
         \A p \in 1..Len(ReceivedBefore) :
           \E i \in 1..(j - 1) :
             /\ TargetWrites[i].via = "buffered"
             /\ TargetWrites[i].msg.seq = ReceivedBefore[p].msg.seq

\* C1 witness: a target has received two buffered requests and then one
\* forwarded on arrival.
C1_Witness ==
  \E t \in 1..Len(targets) :
    /\ Len(BufferedWritesTo(t)) >= 2
    /\ \E j \in 1..Len(WritesTo(t)) : WritesTo(t)[j].via = "direct"

\* C2: no request that was held in the pending queue is written to a
\* target more than once.
C2_BufferedSentOnce ==
  \A i, j \in 1..Len(TargetWrites) :
    (/\ i < j
     /\ TargetWrites[i].via = "buffered"
     /\ TargetWrites[j].via = "buffered")
    => TargetWrites[i].msg.seq # TargetWrites[j].msg.seq

\* C3: the sequence numbers of the messages written to the client are
\* strictly increasing in the order written.
C3_SeqStrictlyIncreasing ==
  \A i, j \in 1..Len(ClientWrites) :
    i < j => ClientWrites[i].msg.seq < ClientWrites[j].msg.seq

\* C3 witness: a forwarded target message, an output event and a synthetic
\* response have all been written.
C3_Witness ==
  \A ty \in {"target", "event", "response"} :
    \E i \in 1..Len(ClientWrites) : ClientWrites[i].msg.type = ty

\* The translation the claim describes: the legacy prefix replaced by the
\* new one, any other command unchanged.
LegacyToNew(command) ==
  IF command # <<>> /\ command[1] = "nuclide_" THEN <<"fb_">> \o Tail(command) ELSE command

\* C4: every request written to a target carries the translation of the
\* command the client sent, whether it was buffered first or not, and
\* translating what was written changes nothing.
C4_AllTransmittedTranslated ==
  \A i \in 1..Len(TargetWrites) :
    /\ \E d \in 1..Len(Dispatches) :
         /\ Dispatches[d].msg.seq = TargetWrites[i].msg.seq
         /\ TargetWrites[i].msg.command = LegacyToNew(Dispatches[d].msg.command)
    /\ TranslateNuclideRequest(TargetWrites[i].msg) = TargetWrites[i].msg

\* C5: a disconnect request is answered by exactly one success response
\* carrying its seq, the process then exits with status 0 and does nothing
\* more; a disconnect is never written to a target nor buffered.
C5_DisconnectRespondsAndExits ==
  /\ \A k \in 1..Len(effects) :
       (effects[k].ch = "dispatch" /\ effects[k].msg.command = <<"disconnect">>) =>
         /\ Len(effects) = k + 3
         /\ effects[k + 1].ch = "stdout" /\ effects[k + 1].via = "header"
         /\ effects[k + 2].ch = "stdout" /\ effects[k + 2].via = "body"
         /\ effects[k + 2].msg.type = "response"
         /\ effects[k + 2].msg.request_seq = effects[k].msg.seq
         /\ effects[k + 2].msg.success = TRUE
         /\ effects[k + 2].msg.command = <<"disconnect">>
         /\ effects[k + 3].ch = "exit"
         /\ effects[k + 3].msg.code = "0"
         /\ exitCode = "0"
         /\ Cardinality({i \in 1..Len(ClientWrites) :
              /\ ClientWrites[i].msg.type = "response"
              /\ ClientWrites[i].msg.command = <<"disconnect">>}) = 1
  /\ \A i \in 1..Len(TargetWrites) : TargetWrites[i].msg.command # <<"disconnect">>
  /\ \A i \in 1..Len(bufferedRequests) : bufferedRequests[i].command # <<"disconnect">>

\* C5 witness: a disconnect was handled after a connection had been
\* established, while another attach was still connecting.
C5_Witness ==
  /\ debugging
  /\ \E t \in 1..Len(targets) : targets[t].state = "connecting"
  /\ \E k \in 1..Len(effects) :
       effects[k].ch = "dispatch" /\ effects[k].msg.command = <<"disconnect">>

\* C6: when no connection attempt has succeeded, the process exits only
\* after the sixth failed attempt, with the socket error's code and a
\* diagnostic on the error stream, and there is never a seventh attempt.
C6_ExitOnlyAfterSixFailures ==
  FirstEstablished = 0 =>
    /\ Len(targets) <= MaxRetries + 1
    /\ exitCode # "none" =>
         /\ Len(targets) = MaxRetries + 1
         /\ exitCode = "ECONNREFUSED"
         /\ Len(Diagnostics) = 1

C8_ConnectOrder ==
  \A k \in 1..Len(effects) :
    effects[k].ch = "established" =>
      LET t == effects[k].to
          n == Len(bufferedRequests)
          h == k - n - 1
          stream == IF targets[t].kind = "socket" THEN "socket" ELSE "stdin"
      IN /\ h >= 1
         /\ effects[h] = Effect("target", t, stream, "handshake", targets[t].msg)
         /\ \A i \in 1..n :
              effects[h + i] = Effect("target", t, stream, "buffered", bufferedRequests[i])
         /\ \A j \in 1..(h - 1) : ~(effects[j].ch = "target" /\ effects[j].to = t)
         /\ targets[t].kind = "socket" =>
              /\ k + 2 <= Len(effects)
              /\ effects[k + 1].ch = "stdout" /\ effects[k + 1].via = "header"
              /\ effects[k + 2].ch = "stdout" /\ effects[k + 2].via = "body"
              /\ effects[k + 2].msg.type = "response"
              /\ effects[k + 2].msg.request_seq = targets[t].msg.seq
              /\ effects[k + 2].msg.success = TRUE
              /\ effects[k + 2].msg.command = <<"attach">>

\* C8 witness: an attach socket connected with two requests buffered and
\* was answered.
C8_Witness ==
  \E t \in 1..Len(targets) :
    /\ targets[t].kind = "socket"
    /\ Established(t)
    /\ Len(BufferedWritesTo(t)) >= 2
    /\ \E i \in 1..Len(ClientWrites) :
         ClientWrites[i].msg.type = "response" /\ ClientWrites[i].msg.command = <<"attach">>

\* The complete (NUL-terminated) messages of a target byte stream.
RECURSIVE CompleteMessages(_)
CompleteMessages(text) ==
  LET idx == IndexOf(text, <<NUL>>)
  IN IF idx < 0 THEN <<>>
     ELSE <<SubstrTo(text, idx)>> \o CompleteMessages(SubstrFrom(text, idx + 1))

ValidMessages(text) ==
  SelectSeq(CompleteMessages(text), LAMBDA m : JsonParseTarget(m).ok)

InvalidMessages(text) ==
  SelectSeq(CompleteMessages(text), LAMBDA m : ~JsonParseTarget(m).ok)

ForwardedTargetMessages ==
  SelectSeq(ClientWrites, LAMBDA e : e.msg.type = "target")

ParseDiagnostics ==
  SelectSeq(Diagnostics, LAMBDA e : e.msg.text = "Error parsing message from target")

\* C9: of the NUL-terminated messages the targets have sent, each one that
\* is not valid JSON has produced one diagnostic and nothing for the
\* client, and each valid one has been written to the client.
C9_InvalidDroppedValidDelivered ==
  /\ Len(ParseDiagnostics) = Len(InvalidMessages(targetRead))
  /\ Len(ForwardedTargetMessages) = Len(ValidMessages(targetRead))

\* C10: once a stream of well-formed frames has been read, in whatever
\* chunks, the requests dispatched are those dispatched when the whole
\* stream arrives in one read.
C10_ChunkIndependence ==
  stdinStream = <<>> =>
    LET whole == SelectSeq(ProcessClientMessage(Constructed, stdinRead).effects,
                           LAMBDA e : e.ch = "dispatch")
    IN Dispatches = whole

\* Lemma beside C9: as long as no message the targets sent is empty, the
\* statement of C9 holds.
C9_HoldsWithoutEmptyMessage ==
  (\A i \in 1..Len(CompleteMessages(targetRead)) : CompleteMessages(targetRead)[i] # <<>>)
    => C9_InvalidDroppedValidDelivered

\* Lemma beside C10: for streams without a multi-byte character the
\* statement of C10 holds.
C10_HoldsForAscii ==
  (\A i \in 1..Len(stdinRead) : stdinRead[i] # EAcuteLead) => C10_ChunkIndependence

\* The payloads of a byte stream of frames, taken byte-exactly: after each
\* header with value N and the two CRLF, the next N bytes, decoded.
RECURSIVE FramedPayloads(_)
FramedPayloads(bytes) ==
  IF Len(bytes) < 2 + Len(TWO_CRLF) \/ bytes[1] # HDR THEN <<>>
  ELSE LET n == bytes[2] - 48
           start == 2 + Len(TWO_CRLF)
       IN <<ChunkToString(SubSeq(bytes, start + 1, start + n))>>
            \o FramedPayloads(SubSeq(bytes, start + n + 1, Len(bytes)))

\* The payloads the bridge's deframer handed on, as text.
DispatchedPayloads == [i \in 1..Len(Dispatches) |-> RequestText(Dispatches[i].msg)]

\* C11: once a stream of frames built the way writeOutputWithHeader builds
\* them has been fed to processClientMessage, the payloads handed on are
\* exactly the payloads framed, and the input buffer is empty with no
\* message expected.
C11_FramingRoundTrip ==
  stdinStream = <<>> =>
    /\ DispatchedPayloads = FramedPayloads(stdinRead)
    /\ currentInputData = <<>>
    /\ currentContentLength = 0

\* Lemma beside C11: for frames of single-byte characters the statement of
\* C11 holds.
C11_HoldsForAscii ==
  (\A i \in 1..Len(stdinRead) : stdinRead[i] # EAcuteLead) => C11_FramingRoundTrip

\* The backends that are alive: children (a child's exit ends the bridge)
\* and sockets that are connecting or connected.
LiveBackends ==
  {t \in 1..Len(targets) : targets[t].state \in {"running", "connecting", "connected"}}

\* C12: at most one backend is alive, and the write callback, once bound,
\* stays bound to the backend that was established first.
C12_AtMostOneBackend ==
  /\ Cardinality(LiveBackends) <= 1
  /\ debuggerWriteCallback # 0 =>
       /\ FirstEstablished # 0
       /\ debuggerWriteCallback = effects[FirstEstablished].to

\* C13: while the connection-established flag is set, the pending request
\* queue is empty.
C13_QueueEmptyWhileDebugging ==
  debugging => bufferedRequests = <<>>

\* C14: where the close or the disconnect handler of a socket has run, it
\* wrote a diagnostic to the error stream and then ended the process with
\* status 0.
C14_CloseExitsWithDiagnostic ==
  \A k \in 1..Len(effects) :
    (/\ effects[k].ch = "log"
     /\ effects[k].msg.text \in {"Socket event: close", "Socket event: disconnect"})
    => /\ Len(effects) = k + 2
       /\ effects[k + 1].ch = "stderr"
       /\ effects[k + 2].ch = "exit"
       /\ effects[k + 2].msg.code = "0"
       /\ exitCode = "0"

\* Lemma beside C14: the statement holds for the disconnect handler.
C14_HoldsForDisconnect ==
  \A k \in 1..Len(effects) :
    (effects[k].ch = "log" /\ effects[k].msg.text = "Socket event: disconnect")
    => /\ Len(effects) = k + 2
       /\ effects[k + 1].ch = "stderr"
       /\ effects[k + 2].ch = "exit"
       /\ effects[k + 2].msg.code = "0"
       /\ exitCode = "0"

\* Lemma beside C14: the close handler ends the process with status 0.
C14_CloseExitsZero ==
  \A k \in 1..Len(effects) :
    (effects[k].ch = "log" /\ effects[k].msg.text = "Socket event: close")
    => /\ Len(effects) = k + 1
       /\ effects[k + 1].ch = "exit"
       /\ effects[k + 1].msg.code = "0"
       /\ exitCode = "0"

\* The attach requests with a port argument that parseInt cannot read.
HasInvalidPort(requestMsg) ==
  /\ requestMsg.command = <<"attach">>
  /\ requestMsg.arguments.port # <<>>
  /\ ParseInt(requestMsg.arguments.port) = NaN

\* C15: an attach request with an unparsable port is followed by the
\* invalid-port error on the error stream and the end of the process, and
\* by nothing else: no socket exists for it, no retry is scheduled for it,
\* nothing is written to any target after it.  Every socket of an attach
\* request without a port argument connects to port 8999.
C15_InvalidPortFatal ==
  /\ \A k \in 1..Len(effects) :
       (effects[k].ch = "dispatch" /\ HasInvalidPort(effects[k].msg)) =>
         /\ Len(effects) = k + 2
         /\ effects[k + 1].ch = "stderr"
         /\ effects[k + 1].msg.text = "Invalid HHVM debug port specified."
         /\ effects[k + 2].ch = "exit"
         /\ exitCode # "none"
         /\ \A t \in 1..Len(targets) : targets[t].msg.seq # effects[k].msg.seq
         /\ \A tm \in timers : tm.msg.seq # effects[k].msg.seq
  /\ \A t \in 1..Len(targets) :
       (targets[t].kind = "socket" /\ targets[t].msg.arguments.port = <<>>) =>
         targets[t].port = DEFAULT_HHVM_DEBUGGER_PORT

\* C15 witness: an attach request with an unparsable port was handled
\* while the socket of an earlier attach request without a port was alive.
C15_Witness ==
  /\ \E k \in 1..Len(effects) : effects[k].ch = "dispatch" /\ HasInvalidPort(effects[k].msg)
  /\ \E t \in 1..Len(targets) :
       /\ targets[t].kind = "socket"
       /\ targets[t].msg.arguments.port = <<>>
       /\ targets[t].state \in {"connecting", "connected"}

\* C16: for a child launched for a no-debug run nothing is written to the
\* child, no error is raised, and the process ends only with the child's
\* exit, with the child's status.
C16_NoDebugRunsToCompletion ==
  \A t \in 1..Len(targets) :
    (targets[t].kind = "child" /\ targets[t].noDebug) =>
      /\ WritesTo(t) = <<>>
      /\ \A i \in 1..Len(Diagnostics) : Diagnostics[i].msg.text # "TypeError"
      /\ exitCode \in {"none"} \cup ChildExitCodes

\* Lemma beside C16: nothing is written to a child launched for a no-debug
\* run.
C16_NothingWrittenToNoDebugChild ==
  \A t \in 1..Len(targets) :
    (targets[t].kind = "child" /\ targets[t].noDebug) => WritesTo(t) = <<>>

\* C17: every protocol message written to a launched child goes to the
\* stream the bridge reads the child's protocol messages from, and none
\* to the child's standard input.
C17_LaunchWritesToProtocolStream ==
  \A i \in 1..Len(TargetWrites) :
    targets[TargetWrites[i].to].kind = "child" =>
      /\ TargetWrites[i].stream = ChildProtocolStream
      /\ TargetWrites[i].stream # "stdin"

\* Every write to the client's stream, headers and bodies.
StdoutWrites == SelectSeq(effects, LAMBDA e : e.ch = "stdout")

\* The bytes of one write to the client's stream.
WrittenBytes(e) == IF e.via = "header" THEN Utf8(e.msg.text) ELSE Utf8(Stringify(e.msg))

\* C18: the writes to the client come in pairs, a header and then a body;
\* the header is "Content-Length: ", the number of bytes of that body, and
\* two CRLF.
C18_WholeFrames ==
  /\ Len(StdoutWrites) % 2 = 0
  /\ \A i \in 1..Len(StdoutWrites) :
       i % 2 = 1 =>
         /\ StdoutWrites[i].via = "header"
         /\ StdoutWrites[i + 1].via = "body"
         /\ WrittenBytes(StdoutWrites[i])
              = Utf8(HeaderText(Len(WrittenBytes(StdoutWrites[i + 1]))))

\* C18 witness: a response, a forwarded target message and an output
\* event holding a two-byte character have all been written.
C18_Witness ==
  /\ \A ty \in {"target", "response"} :
       \E i \in 1..Len(ClientWrites) : ClientWrites[i].msg.type = ty
  /\ \E i \in 1..Len(ClientWrites) :
       /\ ClientWrites[i].msg.type = "event"
       /\ \E j \in 1..Len(ClientWrites[i].msg.output) : ClientWrites[i].msg.output[j] = EAcute

IdsOf(es) == [i \in 1..Len(es) |-> es[i].msg.id]

\* C19: after a target data event has been handled the output buffer
\* holds no NUL, and the valid messages among the complete messages the
\* targets have sent have each been written to the client once, in the
\* order sent.
C19_TargetStreamDelivered ==
  /\ IndexOf(currentOutputData, <<NUL>>) = -1
  /\ IdsOf(ForwardedTargetMessages)
       = [i \in 1..Len(ValidMessages(targetRead)) |->
            JsonParseTarget(ValidMessages(targetRead)[i]).value.id]

\* Lemma beside C19: as long as no message the targets sent is empty, the
\* statement of C19 holds.
C19_HoldsWithoutEmptyMessage ==
  (\A i \in 1..Len(CompleteMessages(targetRead)) : CompleteMessages(targetRead)[i] # <<>>)
    => C19_TargetStreamDelivered

\* The success responses to attach request seq, as indices into effects.
AttachResponses(seq) ==
  {k \in 1..Len(effects) :
     /\ effects[k].ch = "stdout" /\ effects[k].via = "body"
     /\ effects[k].msg.type = "response"
     /\ effects[k].msg.command = <<"attach">>
     /\ effects[k].msg.request_seq = seq}

C20_NoResponseBeforeConnect ==
  \A d \in 1..Len(Dispatches) :
    Dispatches[d].msg.command = <<"attach">> =>
      \A k \in AttachResponses(Dispatches[d].msg.seq) :
        \E j \in 1..(k - 1) :
          /\ effects[j].ch = "established"
          /\ targets[effects[j].to].kind = "socket"
          /\ targets[effects[j].to].msg.seq = Dispatches[d].msg.seq

====
